---- MODULE Spec2Model ----
(***************************************************************************)
(* Team_Generator: the browser client (script.js: roster, team generation, *)
(* rendering, saved-team recall) and the REST API over the document store  *)
(* (server.js and its sibling variants).                                   *)
(***************************************************************************)
EXTENDS Integers, Sequences, FiniteSets, TLC

(***************************************************************************)
(* JavaScript numbers.  script.js computes the ratings with Number, which  *)
(* is IEEE-754 binary64: every / and + rounds its exact result to 53       *)
(* significant bits, ties to even.  A non-negative double is held here     *)
(* exactly, as the binary fixed-point value [int, frac]: int the integer   *)
(* part, frac four 16-bit limbs holding the 64 bits after the binary point *)
(* (most significant limb first).  Every double met here is zero or at     *)
(* least 2^-11, so its 53 significant bits fit.                            *)
(***************************************************************************)
MantissaBits == 53

LimbBase == 2^16

FracWidth == 4 * 16

Zero == [int |-> 0, frac |-> <<0, 0, 0, 0>>]

FromInt(n) == [int |-> n, frac |-> <<0, 0, 0, 0>>]

\* Number of bits of n: the least k with n < 2^k.
BitLen(n) == CHOOSE k \in 0..30 : n < 2^k /\ (k = 0 \/ n >= 2^(k - 1))

\* Bit i (1..FracWidth) after the binary point; 0 beyond.
FracBit(f, i) ==
    IF i < 1 \/ i > FracWidth THEN 0
    ELSE (f[((i - 1) \div 16) + 1] \div 2^(15 - ((i - 1) % 16))) % 2

\* Position of the first 1 bit after the binary point, 0 when there is none.
FirstOne(f) ==
    IF \E i \in 1..FracWidth : FracBit(f, i) = 1
    THEN CHOOSE i \in 1..FracWidth :
            FracBit(f, i) = 1 /\ \A j \in 1..(i - 1) : FracBit(f, j) = 0
    ELSE 0

\* Exact sum of two fixed-point values, limb by limb from the right.
AddExact(x, y) ==
    LET s4 == x.frac[4] + y.frac[4]
        s3 == x.frac[3] + y.frac[3] + (s4 \div LimbBase)
        s2 == x.frac[2] + y.frac[2] + (s3 \div LimbBase)
        s1 == x.frac[1] + y.frac[1] + (s2 \div LimbBase)
    IN  [int  |-> x.int + y.int + (s1 \div LimbBase),
         frac |-> <<s1 % LimbBase, s2 % LimbBase, s3 % LimbBase, s4 % LimbBase>>]

\* x with the bits after position keep (0..FracWidth) cleared.
Truncate(x, keep) ==
    [int  |-> x.int,
     frac |-> [j \in 1..4 |->
                 LET k == keep - 16 * (j - 1)
                     w == IF k <= 0 THEN LimbBase ELSE IF k >= 16 THEN 1 ELSE 2^(16 - k)
                 IN  (x.frac[j] \div w) * w]]

\* One unit in the last place of a value that keeps `keep` bits after the point.
Ulp(keep) ==
    IF keep = 0 THEN FromInt(1)
    ELSE [int  |-> 0,
          frac |-> [j \in 1..4 |->
                      IF j = ((keep - 1) \div 16) + 1
                      THEN 2^(15 - ((keep - 1) % 16)) ELSE 0]]

\* Round the exact value x (plus something below its last bit when sticky) to
\* the nearest double, ties to even.
RoundToDouble(x, sticky) ==
    LET lead == FirstOne(x.frac)
        keep == IF x.int > 0 THEN MantissaBits - BitLen(x.int)
                ELSE lead + MantissaBits - 1
    IN  IF x.int = 0 /\ lead = 0 THEN Zero
        ELSE IF keep >= FracWidth THEN x
        ELSE LET guard == FracBit(x.frac, keep + 1)
                 rest  == sticky \/ \E j \in (keep + 2)..FracWidth : FracBit(x.frac, j) = 1
                 lsb   == IF keep = 0 THEN x.int % 2 ELSE FracBit(x.frac, keep)
                 up    == guard = 1 /\ (rest \/ lsb = 1)
                 down  == Truncate(x, keep)
             IN  IF up THEN AddExact(down, Ulp(keep)) ELSE down

\* JavaScript x / n for a double x >= 0 and an integer n >= 1: long division,
\* limb by limb from the left, then rounded.
DoubleDiv(x, n) ==
    LET c1 == (x.int % n) * LimbBase + x.frac[1]
        c2 == (c1 % n) * LimbBase + x.frac[2]
        c3 == (c2 % n) * LimbBase + x.frac[3]
        c4 == (c3 % n) * LimbBase + x.frac[4]
    IN  RoundToDouble([int  |-> x.int \div n,
                       frac |-> <<c1 \div n, c2 \div n, c3 \div n, c4 \div n>>],
                      c4 % n # 0)

\* JavaScript x + y for doubles x, y >= 0.
DoubleAdd(x, y) == RoundToDouble(AddExact(x, y), FALSE)

\* Math.round(x) for a double x >= 0: the nearest integer, halves up.
MathRound(x) == x.int + FracBit(x.frac, 1)

(***************************************************************************)
(* JavaScript values used by the client.                                   *)
(***************************************************************************)
\* A Number that parseInt can give: an integer or NaN.
Num(n) == [nan |-> FALSE, val |-> n]

NaN == [nan |-> TRUE, val |-> 0]

Digit == [c \in {"0", "1", "2", "3", "4", "5", "6", "7", "8", "9"} |->
            CASE c = "0" -> 0 [] c = "1" -> 1 [] c = "2" -> 2 [] c = "3" -> 3
              [] c = "4" -> 4 [] c = "5" -> 5 [] c = "6" -> 6 [] c = "7" -> 7
              [] c = "8" -> 8 [] c = "9" -> 9]

IsDigit(c) == c \in DOMAIN Digit

\* The text of an input field is a sequence of characters.
RECURSIVE SkipSpaces(_)
SkipSpaces(str) ==
    IF str # << >> /\ Head(str) = " " THEN SkipSpaces(Tail(str)) ELSE str

\* The value of the longest prefix of digits of str, after acc.
RECURSIVE DigitsValue(_, _)
DigitsValue(str, acc) ==
    IF str # << >> /\ IsDigit(Head(str))
    THEN DigitsValue(Tail(str), 10 * acc + Digit[Head(str)])
    ELSE acc

\* parseInt(str), radix 10: leading white space is skipped, a sign is read,
\* then the digits up to the first character that is none; NaN when there is
\* no digit.  (parseInt("-0") is -0, which compares and indexes as 0.)
parseInt(str) ==
    LET t    == SkipSpaces(str)
        neg  == t # << >> /\ Head(t) = "-"
        body == IF t # << >> /\ Head(t) \in {"-", "+"} THEN Tail(t) ELSE t
    IN  IF body = << >> \/ ~IsDigit(Head(body)) THEN NaN
        ELSE IF neg THEN Num(0 - DigitsValue(body, 0))
        ELSE Num(DigitsValue(body, 0))

\* (The comparison off by one: a count one above the players passes.)
JsLessOffByOne(a, b) == ~b.nan /\ a + 1 < b.val

\* a < b for an integer a and a Number b: false when b is NaN.
JsLess(a, b) == ~b.nan /\ a < b.val

\* a % b for an integer a >= 0 and a Number b: NaN when b is 0 or NaN, else
\* the remainder, which has the sign of a.
JsMod(a, b) ==
    IF b.nan \/ b.val = 0 THEN NaN
    ELSE IF b.val < 0 THEN Num(a % (0 - b.val)) ELSE Num(a % b.val)

\* ToLength, as Array.from({ length: n }) applies it: NaN and negatives give 0.
ToLength(n) == IF n.nan \/ n.val < 0 THEN 0 ELSE n.val

(***************************************************************************)
(* State.                                                                  *)
(***************************************************************************)
VARIABLES
    \* ---- the browser page (script.js) ----
    persons,        \* let persons (the client's copy of the roster)
    currentTeams,   \* let currentTeams
    teamsDisplay,   \* teamsDisplay.innerHTML: the team cards last rendered
    saveBtnShown,   \* saveTeamsBtn.style.display is 'inline-block'
    alertMsg,       \* what the last handler passed to alert(), NoAlert if nothing
    call,           \* the last handler run: its input and whether it ended by
                    \* an uncaught exception
    savedTeams,     \* let savedTeams (the client's copy of the saved sets)
    pending,        \* the fetches the page awaits: the request of each, the
                    \* function awaiting it, and the answer once it is there
    \* ---- the server process and its document store ----
    variant,        \* which of the repository's server files is deployed
    db,             \* let db: the store handle, unset until connectDB sets it
    dbPersons,      \* collection 'persons', in the store's natural order
    dbSavedTeams,   \* collection 'savedTeams', in the store's natural order
    nextOid,        \* the ObjectIds issued so far are 1 .. nextOid - 1
    now,            \* the clock read by new Date()
    response,       \* the last request answered and the answer it got
    inflight,       \* the requests the server has accepted and not answered:
                    \* each waits for connectDB or for its store operation
    opened,         \* how many times MongoClient.connect has succeeded
    process         \* the server process: "starting", "listening" or "exited"

clientVars == <<persons, currentTeams, teamsDisplay, saveBtnShown, alertMsg, call,
                savedTeams>>

serverVars == <<variant, db, dbPersons, dbSavedTeams, nextOid, now, response,
                inflight, opened, process>>

vars == <<persons, currentTeams, teamsDisplay, saveBtnShown, alertMsg, call,
          savedTeams, pending, variant, db, dbPersons, dbSavedTeams, nextOid, now,
          response, inflight, opened, process>>


(***************************************************************************)
(* Bounds of the model.                                                    *)
(***************************************************************************)
\* Players the client holds at most.
MaxPlayers == 4

(***************************************************************************)
(* Players and teams (script.js).                                          *)
(***************************************************************************)
StatFields == {"pace", "shooting", "passing", "dribbling", "defending", "physical"}

Stats(pa, sh, ps, dr, de, ph) ==
    [pace |-> pa, shooting |-> sh, passing |-> ps,
     dribbling |-> dr, defending |-> de, physical |-> ph]

\* The ratings of the players of the roster, by position, repeating.
StatsTable ==
    << Stats(80, 70, 60, 90, 50, 40),
       Stats(70, 70, 70, 70, 60, 58),
       Stats(50, 50, 50, 50, 50, 51),
       Stats(99, 1, 0, 100, 37, 12),
       Stats(61, 62, 63, 64, 65, 66) >>

NameTable == <<"Ann", "Bob", "Cy", "Di", "Ed">>

\* A player record as GET /api/persons returns it.
RosterPlayer(i) ==
    [_id   |-> i,
     name  |-> NameTable[((i - 1) % Len(NameTable)) + 1],
     stats |-> StatsTable[((i - 1) % Len(StatsTable)) + 1],
     photo |-> << >>,
     createdAt |-> 0,
     updatedAt |-> << >>]

Roster(n) == [i \in 1..n |-> RosterPlayer(i)]

\* `Team ${i + 1}` for the 0-based index i.
TeamName(i) == <<"Team", i + 1>>

\* The values the team-count field is given: the counts 0 .. MaxPlayers + 1,
\* and texts that are no plain count.
DigitChar == <<"0", "1", "2", "3", "4", "5", "6", "7", "8", "9">>

RECURSIVE Decimal(_)
Decimal(n) ==
    IF n < 10 THEN <<DigitChar[n + 1]>>
    ELSE Append(Decimal(n \div 10), DigitChar[(n % 10) + 1])

NumTeamsInputs ==
    {Decimal(n) : n \in 0..(MaxPlayers + 1)}
        \cup {<< >>, <<"x">>, <<"-", "1">>, <<" ", "2", ".", "5">>}

\* Object.values(member.stats).reduce((a, b) => a + b, 0)
SumStats(stats) ==
    stats.pace + stats.shooting + stats.passing
        + stats.dribbling + stats.defending + stats.physical

\* team.members.reduce((sum, member) => sum + overall, 0), overall being the
\* member's six-stat sum / 6; from member i on, acc the sum so far.
RECURSIVE SumOverall(_, _, _)
SumOverall(members, i, acc) ==
    IF i > Len(members) THEN acc
    ELSE SumOverall(members, i + 1,
                    DoubleAdd(acc, DoubleDiv(FromInt(SumStats(members[i].stats)), 6)))

\* renderTeams: the Average Rating shown in the header of a team with these
\* members.
AverageRating(members) ==
    IF Len(members) > 0
    THEN MathRound(DoubleDiv(SumOverall(members, 1, Zero), Len(members)))
    ELSE 0

\* The member lists a team of roster players can have, and the rating of each,
\* computed once.
RosterLineups ==
    {m \in UNION {[1..k -> {RosterPlayer(i) : i \in 1..MaxPlayers}] : k \in 0..MaxPlayers} :
        \A i, j \in 1..Len(m) : i # j => m[i] # m[j]}

RosterRatings == [m \in RosterLineups |-> AverageRating(m)] @@ << >>

avgOverall(team) ==
    IF team.members \in DOMAIN RosterRatings
    THEN RosterRatings[team.members]
    ELSE AverageRating(team.members)

\* renderTeams: the cards written to teamsDisplay (the header of each team);
\* the empty-state text when there is no team.
renderTeams(teams) ==
    [i \in 1..Len(teams) |->
        [name    |-> teams[i].name,
         avg     |-> avgOverall(teams[i]),
         players |-> Len(teams[i].members)]]

\* (Distribution in blocks, Math.floor(index / numTeams) for index % numTeams.)
RECURSIVE DistributeInBlocks(_, _, _, _)
DistributeInBlocks(teams, shuffled, index, numTeams) ==
    IF index >= Len(shuffled) THEN [teams |-> teams, threw |-> FALSE]
    ELSE LET teamIndex == IF numTeams.nan \/ numTeams.val <= 0 THEN Len(teams)
                          ELSE index \div numTeams.val
         IN  IF teamIndex >= Len(teams)
             THEN [teams |-> teams, threw |-> TRUE]
             ELSE DistributeInBlocks(
                    [teams EXCEPT ![teamIndex + 1].members =
                                        Append(@, shuffled[index + 1])],
                    shuffled, index + 1, numTeams)

\* shuffled.forEach((person, index) => currentTeams[index % numTeams]
\*     .members.push(person)), from the 0-based index on.  currentTeams[k] is
\* undefined when k is NaN or no index of the array, and reading .members of
\* undefined throws a TypeError, which leaves the array as it is by then.
\* (Dealing from the last team backwards.)
RECURSIVE DistributeBackwards(_, _, _, _)
DistributeBackwards(teams, shuffled, index, numTeams) ==
    IF index >= Len(shuffled) THEN [teams |-> teams, threw |-> FALSE]
    ELSE LET teamIndex == JsMod(index, numTeams)
         IN  IF teamIndex.nan \/ teamIndex.val >= Len(teams)
             THEN [teams |-> teams, threw |-> TRUE]
             ELSE DistributeBackwards(
                    [teams EXCEPT ![Len(teams) - teamIndex.val].members =
                                        Append(@, shuffled[index + 1])],
                    shuffled, index + 1, numTeams)

RECURSIVE Distribute(_, _, _, _)
Distribute(teams, shuffled, index, numTeams) ==
    IF index >= Len(shuffled) THEN [teams |-> teams, threw |-> FALSE]
    ELSE LET teamIndex == JsMod(index, numTeams)
         IN  IF teamIndex.nan \/ teamIndex.val >= Len(teams)
             THEN [teams |-> teams, threw |-> TRUE]
             ELSE Distribute(
                    [teams EXCEPT ![teamIndex.val + 1].members =
                                        Append(@, shuffled[index + 1])],
                    shuffled, index + 1, numTeams)

\* Array.from({ length: numTeams }, (_, i) => ({ name, members: [] }))
\* (Teams numbered from 0: `Team ${i}` for `Team ${i + 1}`.)
EmptyTeamsNumberedFromZero(numTeams) ==
    [i \in 1..ToLength(numTeams) |-> [name |-> TeamName(i - 2), members |-> << >>]]

EmptyTeams(numTeams) ==
    [i \in 1..ToLength(numTeams) |-> [name |-> TeamName(i - 1), members |-> << >>]]

\* (A shuffle that draws each position at random, with repeats.)
ShufflesWithRepeats(list) ==
    {[i \in 1..Len(list) |-> list[p[i]]] : p \in [1..Len(list) -> 1..Len(list)]}

\* [...persons].sort(() => Math.random() - 0.5): the comparator answers at
\* random, so the copy comes back in an order the engine's sort decides: any
\* permutation of the copy.
Shuffles(list) ==
    {[i \in 1..Len(list) |-> list[p[i]]] : p \in Permutations(1..Len(list))}

NoAlert == [text |-> "none", n |-> NaN]

NeedPlayersAlert(numTeams) == [text |-> "You need at least n players to create n teams!",
                               n |-> numTeams]

\* generateTeams(), the click handler of generateBtn, with `input` the text of
\* the team-count field.
\* (persons.sort(...) for [...persons].sort(...): the list itself is shuffled.)
generateTeamsSortingInPlace(input) ==
    LET numTeams == parseInt(input)
    IN  IF JsLess(Len(persons), numTeams)
        THEN /\ alertMsg' = NeedPlayersAlert(numTeams)
             /\ call' = [op |-> "generateTeams", numTeams |-> numTeams, threw |-> FALSE]
             /\ UNCHANGED <<persons, currentTeams, teamsDisplay, saveBtnShown>>
             /\ UNCHANGED <<savedTeams, pending>>
             /\ UNCHANGED serverVars
        ELSE \E shuffled \in Shuffles(persons) :
                LET d == Distribute(EmptyTeams(numTeams), shuffled, 0, numTeams)
                IN  /\ persons' = shuffled
                    /\ currentTeams' = d.teams
                    /\ IF d.threw
                       THEN UNCHANGED <<teamsDisplay, saveBtnShown>>
                       ELSE /\ teamsDisplay' = renderTeams(d.teams)
                            /\ saveBtnShown' = TRUE
                    /\ alertMsg' = NoAlert
                    /\ call' = [op |-> "generateTeams", numTeams |-> numTeams,
                                threw |-> d.threw]
                    /\ UNCHANGED <<savedTeams, pending>>
                    /\ UNCHANGED serverVars

generateTeams(input) ==
    LET numTeams == parseInt(input)
    IN  IF JsLess(Len(persons), numTeams)
        THEN /\ alertMsg' = NeedPlayersAlert(numTeams)
             /\ call' = [op |-> "generateTeams", numTeams |-> numTeams, threw |-> FALSE]
             /\ UNCHANGED <<persons, currentTeams, teamsDisplay, saveBtnShown>>
             /\ UNCHANGED <<savedTeams, pending>>
             /\ UNCHANGED serverVars
        ELSE \E shuffled \in Shuffles(persons) :
                LET d == Distribute(EmptyTeams(numTeams), shuffled, 0, numTeams)
                IN  /\ currentTeams' = d.teams
                    /\ IF d.threw
                       THEN UNCHANGED <<teamsDisplay, saveBtnShown>>
                       ELSE /\ teamsDisplay' = renderTeams(d.teams)
                            /\ saveBtnShown' = TRUE
                    /\ alertMsg' = NoAlert
                    /\ call' = [op |-> "generateTeams", numTeams |-> numTeams,
                                threw |-> d.threw]
                    /\ UNCHANGED <<persons, savedTeams, pending>>
                    /\ UNCHANGED serverVars

GenerateTeams == \E input \in NumTeamsInputs : generateTeams(input)

(***************************************************************************)
(* The REST API (server.js; part_001 has the same routes line for line,    *)
(* part_000 and part_002 differ where noted).  The document store is taken *)
(* to perform each single-document operation atomically and, once          *)
(* connected, without failing.  An optional value (a field that may be     *)
(* null or undefined) is a sequence of length 0 or 1.                      *)
(***************************************************************************)
\* ObjectIds the store issues at most.
MaxOid == 3

\* Documents the two collections hold at most.
MaxPersons == 1

MaxSavedTeams == 2

\* The clock runs from 0 to MaxTime.
MaxTime == 1

Variants == {"server.js", "part_000", "part_002"}

Names == {"Ann", "Bob"}

\* The text JSON.stringify(v) of a value v, a non-empty text that is no JSON,
\* and the text "", which is no JSON either.
JsonOf(v) == [text |-> "json", of |-> <<v>>]

Garbage == [text |-> "garbage", of |-> << >>]

EmptyText == [text |-> "empty", of |-> << >>]

StatsValues == {StatsTable[1], StatsTable[2]}

\* What the stats field of a request body can be: absent, or one of the texts.
StatsFields == {<< >>} \cup {<<t>> : t \in {JsonOf(v) : v \in StatsValues} \cup {Garbage, EmptyText}}

\* JSON.parse(field): the value, or a SyntaxError.  An absent field is
\* undefined, which JSON.parse reads as the text "undefined": no JSON.
JSONparse(field) ==
    IF field # << >> /\ field[1].text = "json"
    THEN [threw |-> FALSE, value |-> field[1].of[1]]
    ELSE [threw |-> TRUE, value |-> "SyntaxError"]

\* !stats: undefined and the empty text are falsy.
Falsy(field) == field = << >> \/ field[1] = EmptyText

\* An uploaded image, as multer hands it over (req.file).
Files == {[filename |-> "a.png", size |-> 100]}

\* The :id of a path: the 24 hex digits of ObjectId n, or a text that is none.
IdOf(n) == [hex |-> TRUE, oid |-> n]

BadId == [hex |-> FALSE, oid |-> 0]

PathIds == {IdOf(n) : n \in 1..MaxOid} \cup {BadId}

\* new ObjectId(id) throws on a text that is no ObjectId.
ObjectIdThrows(id) == ~id.hex

\* Saved-team snapshots a client posts.
TeamsBodies ==
    { << >>,
      <<[name |-> TeamName(0), members |-> <<RosterPlayer(1), RosterPlayer(2)>>]>>,
      <<[name |-> TeamName(0), members |-> <<RosterPlayer(2)>>],
        [name |-> TeamName(1), members |-> <<RosterPlayer(1)>>]>> }

Routes == {"GET /api/persons", "POST /api/persons", "PUT /api/persons/:id",
           "DELETE /api/persons/:id", "GET /api/teams", "POST /api/teams",
           "DELETE /api/teams/:id"}

\* A request: its route, how its body is encoded, and the fields it carries
\* (those its route does not read are left at the first value).
Req(route, enc, id, name, stats, file, teams) ==
    [route |-> route, enc |-> enc, id |-> id, name |-> name,
     stats |-> stats, file |-> file, teams |-> teams]

NoReq == Req("none", "json", BadId, "Ann", << >>, << >>, << >>)

\* Bodies are JSON (express.json) or multipart (the page's FormData); only a
\* multipart body carries a file.
PersonBodies ==
    {[enc |-> e, name |-> n, stats |-> st, file |-> f] :
        e \in {"json", "multipart"}, n \in Names, st \in StatsFields,
        f \in {<< >>} \cup {<<x>> : x \in Files}}

Requests ==
    {Req("GET /api/persons", "json", BadId, "Ann", << >>, << >>, << >>),
     Req("GET /api/teams", "json", BadId, "Ann", << >>, << >>, << >>)}
    \cup {Req("POST /api/persons", b.enc, BadId, b.name, b.stats, b.file, << >>) :
            b \in {x \in PersonBodies : x.file = << >> \/ x.enc = "multipart"}}
    \cup {Req("PUT /api/persons/:id", b[2].enc, b[1], b[2].name, b[2].stats, b[2].file, << >>) :
            b \in PathIds \X {x \in PersonBodies : x.file = << >> \/ x.enc = "multipart"}}
    \cup {Req("DELETE /api/persons/:id", "json", id, "Ann", << >>, << >>, << >>) : id \in PathIds}
    \cup {Req("POST /api/teams", "json", BadId, "Ann", << >>, << >>, t) : t \in TeamsBodies}
    \cup {Req("DELETE /api/teams/:id", "json", id, "Ann", << >>, << >>, << >>) : id \in PathIds}

\* upload.single('photo') parses a multipart body; the person routes of
\* part_002 no longer use it, and express.json leaves a multipart body
\* unparsed: req.body is {} and req.file undefined.
HasMulter(v) == v # "part_002"

BodyOf(v, req) ==
    IF req.enc = "multipart" /\ ~HasMulter(v)
    THEN [name |-> << >>, stats |-> << >>, file |-> << >>]
    ELSE [name |-> <<req.name>>, stats |-> req.stats, file |-> req.file]

\* The photo reference stored for an uploaded file.
PhotoRef(v, file) ==
    IF v = "part_000" THEN <<"/uploads/", file.filename>>
    ELSE <<"Buffer_in_Memory:", file.size>>

Answer(req, status, body) ==
    [req |-> req, status |-> status, body |-> body, by |-> "route"]

IndexOfId(coll, oid) ==
    IF \E i \in 1..Len(coll) : coll[i]._id = oid
    THEN CHOOSE i \in 1..Len(coll) : coll[i]._id = oid
    ELSE 0

RemoveAt(coll, i) == SubSeq(coll, 1, i - 1) \o SubSeq(coll, i + 1, Len(coll))

\* app.get('/api/persons'): find().toArray()
GetPersons(req) ==
    /\ response' = Answer(req, 200, dbPersons)
    /\ UNCHANGED <<dbPersons, dbSavedTeams, nextOid>>

\* app.post('/api/persons').  part_002 answers 400 to absent or unparseable
\* stats and stores no photo; the others let JSON.parse throw into the catch,
\* which answers 500.
CreatePerson(req) ==
    LET body   == BodyOf(variant, req)
        parsed == JSONparse(body.stats)
        photo  == IF HasMulter(variant) /\ body.file # << >>
                  THEN <<PhotoRef(variant, body.file[1])>> ELSE << >>
        person == [_id |-> nextOid, name |-> body.name[1], stats |-> parsed.value,
                   photo |-> photo, createdAt |-> now, updatedAt |-> << >>]
    IN  IF variant = "part_002" /\ Falsy(body.stats)
        THEN /\ response' = Answer(req, 400, "Missing player stats in request.")
             /\ UNCHANGED <<dbPersons, dbSavedTeams, nextOid>>
        ELSE IF parsed.threw
        THEN /\ response' = Answer(req, IF variant = "part_002" THEN 400 ELSE 500,
                                   parsed.value)
             /\ UNCHANGED <<dbPersons, dbSavedTeams, nextOid>>
        ELSE /\ nextOid <= MaxOid
             /\ Len(dbPersons) < MaxPersons
             /\ dbPersons' = Append(dbPersons, person)
             /\ nextOid' = nextOid + 1
             /\ response' = Answer(req, 201, person)
             /\ UNCHANGED dbSavedTeams

\* (An update that stores null for the photo the request does not carry.)
SetFieldsClearingPhoto(doc, updateData) ==
    [f \in DOMAIN doc |-> IF f \in DOMAIN updateData THEN updateData[f]
                          ELSE IF f = "photo" THEN << >> ELSE doc[f]]

\* updateOne(filter, { $set: updateData }) on the matched document: the
\* fields of updateData are written, the others kept.
SetFields(doc, updateData) ==
    [f \in DOMAIN doc |-> IF f \in DOMAIN updateData THEN updateData[f] ELSE doc[f]]

\* (An update with a conflict check: a player updated before is not updated
\* again, the request is answered 409.)
UpdatePersonUnlessUpdated(req) ==
    LET body   == BodyOf(variant, req)
        parsed == JSONparse(body.stats)
        i == IndexOfId(dbPersons, req.id.oid)
    IN  IF parsed.threw \/ ObjectIdThrows(req.id)
        THEN /\ response' = Answer(req, 500, "error.message")
             /\ UNCHANGED <<dbPersons, dbSavedTeams, nextOid>>
        ELSE IF i = 0
        THEN /\ response' = Answer(req, 404, "Person not found")
             /\ UNCHANGED <<dbPersons, dbSavedTeams, nextOid>>
        ELSE IF dbPersons[i].updatedAt # << >>
        THEN /\ response' = Answer(req, 409, "Conflict")
             /\ UNCHANGED <<dbPersons, dbSavedTeams, nextOid>>
        ELSE /\ dbPersons' = [dbPersons EXCEPT ![i] =
                    SetFields(@, [name |-> body.name[1], stats |-> parsed.value,
                                  updatedAt |-> <<now>>])]
             /\ response' = Answer(req, 200, "Person updated successfully")
             /\ UNCHANGED <<dbSavedTeams, nextOid>>

\* app.put('/api/persons/:id')
UpdatePerson(req) ==
    LET body   == BodyOf(variant, req)
        parsed == JSONparse(body.stats)
        base   == [name |-> body.name[1], stats |-> parsed.value, updatedAt |-> <<now>>]
        updateData ==
            IF HasMulter(variant) /\ body.file # << >>
            THEN [name |-> base.name, stats |-> base.stats, updatedAt |-> base.updatedAt,
                  photo |-> <<PhotoRef(variant, body.file[1])>>]
            ELSE base
        i == IndexOfId(dbPersons, req.id.oid)
    IN  IF parsed.threw \/ ObjectIdThrows(req.id)
        THEN /\ response' = Answer(req, 500, "error.message")
             /\ UNCHANGED <<dbPersons, dbSavedTeams, nextOid>>
        ELSE IF i = 0
        THEN /\ response' = Answer(req, 404, "Person not found")
             /\ UNCHANGED <<dbPersons, dbSavedTeams, nextOid>>
        ELSE /\ dbPersons' = [dbPersons EXCEPT ![i] = SetFields(@, updateData)]
             /\ response' = Answer(req, 200, "Person updated successfully")
             /\ UNCHANGED <<dbSavedTeams, nextOid>>

\* (A delete that also drops the saved sets the player is a member of.)
DeletePersonCascading(req) ==
    LET i == IndexOfId(dbPersons, req.id.oid)
    IN  IF ObjectIdThrows(req.id)
        THEN /\ response' = Answer(req, 500, "error.message")
             /\ UNCHANGED <<dbPersons, dbSavedTeams, nextOid>>
        ELSE IF i = 0
        THEN /\ response' = Answer(req, 404, "Person not found")
             /\ UNCHANGED <<dbPersons, dbSavedTeams, nextOid>>
        ELSE /\ dbPersons' = RemoveAt(dbPersons, i)
             /\ dbSavedTeams' = SelectSeq(dbSavedTeams, LAMBDA d :
                    \A t \in 1..Len(d.teams) : \A m \in 1..Len(d.teams[t].members) :
                        d.teams[t].members[m]._id # req.id.oid)
             /\ response' = Answer(req, 200, "Person deleted successfully")
             /\ UNCHANGED nextOid

\* app.delete('/api/persons/:id')
DeletePerson(req) ==
    LET i == IndexOfId(dbPersons, req.id.oid)
    IN  IF ObjectIdThrows(req.id)
        THEN /\ response' = Answer(req, 500, "error.message")
             /\ UNCHANGED <<dbPersons, dbSavedTeams, nextOid>>
        ELSE IF i = 0
        THEN /\ response' = Answer(req, 404, "Person not found")
             /\ UNCHANGED <<dbPersons, dbSavedTeams, nextOid>>
        ELSE /\ dbPersons' = RemoveAt(dbPersons, i)
             /\ response' = Answer(req, 200, "Person deleted successfully")
             /\ UNCHANGED <<dbSavedTeams, nextOid>>

\* (A find() without the sort: the documents in any order.)
Unsorted(coll) == Shuffles(coll)

\* find().sort({ createdAt: -1 }): the documents, newest first; the store
\* fixes no order among documents of equal createdAt.
SortedByCreatedAtDesc(coll) ==
    {s \in Shuffles(coll) :
        \A i, j \in 1..Len(s) : i < j => s[i].createdAt >= s[j].createdAt}

\* app.get('/api/teams')
GetTeams(req) ==
    /\ \E teams \in SortedByCreatedAtDesc(dbSavedTeams) :
            response' = Answer(req, 200, teams)
    /\ UNCHANGED <<dbPersons, dbSavedTeams, nextOid>>

\* (A save that keeps one snapshot only: it overwrites the set stored last.)
SaveTeamsOverwriting(req) ==
    LET savedTeam == [_id |-> nextOid, teams |-> req.teams, createdAt |-> now]
    IN  IF Len(dbSavedTeams) = 0
        THEN /\ nextOid <= MaxOid
             /\ dbSavedTeams' = <<savedTeam>>
             /\ nextOid' = nextOid + 1
             /\ response' = Answer(req, 201, savedTeam)
             /\ UNCHANGED dbPersons
        ELSE /\ dbSavedTeams' = [dbSavedTeams EXCEPT ![Len(dbSavedTeams)].teams = req.teams]
             /\ response' = Answer(req, 201, dbSavedTeams'[Len(dbSavedTeams)])
             /\ UNCHANGED <<dbPersons, nextOid>>

\* app.post('/api/teams')
SaveTeams(req) ==
    LET savedTeam == [_id |-> nextOid, teams |-> req.teams, createdAt |-> now]
    IN  /\ nextOid <= MaxOid
        /\ Len(dbSavedTeams) < MaxSavedTeams
        /\ dbSavedTeams' = Append(dbSavedTeams, savedTeam)
        /\ nextOid' = nextOid + 1
        /\ response' = Answer(req, 201, savedTeam)
        /\ UNCHANGED dbPersons

\* (A delete that answers without looking at deletedCount.)
DeleteTeamUnchecked(req) ==
    LET i == IndexOfId(dbSavedTeams, req.id.oid)
    IN  IF ObjectIdThrows(req.id)
        THEN /\ response' = Answer(req, 500, "error.message")
             /\ UNCHANGED <<dbPersons, dbSavedTeams, nextOid>>
        ELSE /\ dbSavedTeams' = IF i = 0 THEN dbSavedTeams ELSE RemoveAt(dbSavedTeams, i)
             /\ response' = Answer(req, 200, "Saved team deleted successfully")
             /\ UNCHANGED <<dbPersons, nextOid>>

\* app.delete('/api/teams/:id')
DeleteTeam(req) ==
    LET i == IndexOfId(dbSavedTeams, req.id.oid)
    IN  IF ObjectIdThrows(req.id)
        THEN /\ response' = Answer(req, 500, "error.message")
             /\ UNCHANGED <<dbPersons, dbSavedTeams, nextOid>>
        ELSE IF i = 0
        THEN /\ response' = Answer(req, 404, "Saved team not found")
             /\ UNCHANGED <<dbPersons, dbSavedTeams, nextOid>>
        ELSE /\ dbSavedTeams' = RemoveAt(dbSavedTeams, i)
             /\ response' = Answer(req, 200, "Saved team deleted successfully")
             /\ UNCHANGED <<dbPersons, nextOid>>

RouteHandler(req) ==
    CASE req.route = "GET /api/persons"        -> GetPersons(req)
      [] req.route = "POST /api/persons"       -> CreatePerson(req)
      [] req.route = "PUT /api/persons/:id"    -> UpdatePerson(req)
      [] req.route = "DELETE /api/persons/:id" -> DeletePerson(req)
      [] req.route = "GET /api/teams"          -> GetTeams(req)
      [] req.route = "POST /api/teams"         -> SaveTeams(req)
      [] req.route = "DELETE /api/teams/:id"   -> DeleteTeam(req)

\* A request from its arrival to its answer.  server.js and part_002 pass it
\* through the connection middleware: with db unset, connectDB is awaited, and
\* the route runs (next()) if it connected, else the middleware answers 500
\* and db stays unset.  part_000 has no such middleware: it listens only once
\* connectDB has set db.
Serve(req) ==
    /\ \/ /\ db = "connected"
          /\ RouteHandler(req)
          /\ UNCHANGED <<db, opened>>
       \/ /\ db = "unset"
          /\ db' = "connected"
          /\ opened' = opened + 1
          /\ RouteHandler(req)
       \/ /\ db = "unset"
          /\ response' = [req |-> req, status |-> 500, by |-> "middleware",
                          body |-> "Internal Server Error: Database unavailable."]
          /\ UNCHANGED <<db, opened, dbPersons, dbSavedTeams, nextOid>>
    /\ UNCHANGED <<variant, now, inflight, process>>
    /\ UNCHANGED clientVars

RequestsTo(route) == {req \in Requests : req.route = route}

GetPersonsRequest == \E req \in RequestsTo("GET /api/persons") : Serve(req) /\ UNCHANGED pending

PostPersonsRequest == \E req \in RequestsTo("POST /api/persons") : Serve(req) /\ UNCHANGED pending

PutPersonRequest == \E req \in RequestsTo("PUT /api/persons/:id") : Serve(req) /\ UNCHANGED pending

DeletePersonRequest == \E req \in RequestsTo("DELETE /api/persons/:id") : Serve(req) /\ UNCHANGED pending

GetTeamsRequest == \E req \in RequestsTo("GET /api/teams") : Serve(req) /\ UNCHANGED pending

PostTeamsRequest == \E req \in RequestsTo("POST /api/teams") : Serve(req) /\ UNCHANGED pending

DeleteTeamRequest == \E req \in RequestsTo("DELETE /api/teams/:id") : Serve(req) /\ UNCHANGED pending

\* Time passes between requests.
Tick ==
    /\ now < MaxTime
    /\ now' = now + 1
    /\ UNCHANGED <<variant, db, dbPersons, dbSavedTeams, nextOid, response>>
    /\ UNCHANGED <<inflight, opened, process, pending>>
    /\ UNCHANGED clientVars

\* The server process once it accepts requests, the store empty.  part_000
\* connects before it listens (connectDB().then(listen)); the others connect
\* on the first request.
ServerInit ==
    /\ variant \in Variants
    /\ db = IF variant = "part_000" THEN "connected" ELSE "unset"
    /\ dbPersons = << >>
    /\ dbSavedTeams = << >>
    /\ nextOid = 1
    /\ now = 0
    /\ response = [req |-> NoReq, status |-> 0, body |-> "", by |-> "none"]
    /\ inflight = << >>
    /\ opened = IF variant = "part_000" THEN 1 ELSE 0
    /\ process = "listening"

\* The page before it has loaded anything.
ClientInit ==
    /\ persons = << >>
    /\ currentTeams = << >>
    /\ teamsDisplay = << >>
    /\ saveBtnShown = FALSE
    /\ alertMsg = NoAlert
    /\ call = [op |-> "none", numTeams |-> NaN, threw |-> FALSE]
    /\ savedTeams = << >>
    /\ pending = << >>

(***************************************************************************)
(* Requests served concurrently.  A request runs in the event loop up to   *)
(* its await and goes on when the awaited operation is done; in between    *)
(* other requests run.  The server awaits in two places: connectDB in the  *)
(* connection middleware, and the one store operation of a route.  A       *)
(* request accepted and not answered is in inflight, with pc "connecting"  *)
(* (awaiting MongoClient.connect) or "route" (awaiting its store           *)
(* operation).                                                             *)
(***************************************************************************)
\* Requests the server holds unanswered at once, at most.
MaxInflight == 2

HasMiddleware(v) == v # "part_000"

\* The requests sent in the concurrent runs: the two lists, a create, a save,
\* and updates of players 1 and 2 to either name and stats.
ConcurrentRequests ==
    {req \in Requests :
        /\ req.enc = "json"
        /\ req.route \in {"GET /api/persons", "GET /api/teams", "POST /api/persons",
                          "PUT /api/persons/:id", "POST /api/teams"}
        /\ req.route = "POST /api/persons"
            => (req.name = "Ann" /\ req.stats = <<JsonOf(StatsTable[1])>>)
        /\ req.route = "PUT /api/persons/:id"
            => (req.id \in {IdOf(1), IdOf(2)} /\ ~JSONparse(req.stats).threw)
        /\ req.route = "POST /api/teams" => req.teams = << >>}

\* connectDB().then(() => app.listen(...)) of part_000: the process listens
\* once connected, and connectDB ends the process if it cannot connect.
Startup ==
    /\ process = "starting"
    /\ \/ /\ db' = "connected"
          /\ opened' = opened + 1
          /\ process' = "listening"
       \/ /\ process' = "exited"
          /\ UNCHANGED <<db, opened>>
    /\ UNCHANGED <<variant, dbPersons, dbSavedTeams, nextOid, now, response, inflight>>
    /\ UNCHANGED <<clientVars, pending>>

\* A request arrives.  The middleware sees db unset and awaits connectDB(),
\* or calls next() and the route runs up to its store operation.
Arrive(req) ==
    /\ process = "listening"
    /\ Len(inflight) < MaxInflight
    /\ inflight' = Append(inflight,
            [req |-> req,
             pc  |-> IF HasMiddleware(variant) /\ db = "unset"
                     THEN "connecting" ELSE "route"])
    /\ UNCHANGED <<variant, db, dbPersons, dbSavedTeams, nextOid, now, response,
                   opened, process>>
    /\ UNCHANGED <<clientVars, pending>>

\* MongoClient.connect resolves: db = client.db(), then next().
ConnectSucceeds(k) ==
    /\ inflight[k].pc = "connecting"
    /\ db' = "connected"
    /\ opened' = opened + 1
    /\ inflight' = [inflight EXCEPT ![k].pc = "route"]
    /\ UNCHANGED <<variant, dbPersons, dbSavedTeams, nextOid, now, response, process>>
    /\ UNCHANGED <<clientVars, pending>>

\* MongoClient.connect rejects: connectDB throws and the middleware answers.
ConnectFails(k) ==
    /\ inflight[k].pc = "connecting"
    /\ response' = [req |-> inflight[k].req, status |-> 500, by |-> "middleware",
                    body |-> "Internal Server Error: Database unavailable."]
    /\ inflight' = RemoveAt(inflight, k)
    /\ UNCHANGED <<variant, db, dbPersons, dbSavedTeams, nextOid, now, opened, process>>
    /\ UNCHANGED <<clientVars, pending>>

\* The store operation of the route is done and the route answers.
RunRoute(k) ==
    /\ inflight[k].pc = "route"
    /\ RouteHandler(inflight[k].req)
    /\ inflight' = RemoveAt(inflight, k)
    /\ UNCHANGED <<variant, db, now, opened, process>>
    /\ UNCHANGED <<clientVars, pending>>

(***************************************************************************)
(* The page's asynchronous handlers (script.js).  Each runs to its next    *)
(* await in one step: the fetch it awaits is put in pending, the server    *)
(* answers it in a step of its own, and the handler goes on from the       *)
(* answer in a third.  Other handlers may run in between.                  *)
(***************************************************************************)
\* Fetches the page awaits at once, at most.
MaxPending == 1

\* Players in the store when the page is opened, at most.
MaxStoredPlayers == 2

Alert(text) == [n |-> NaN, text |-> text]

Called(op) == [op |-> op, numTeams |-> NaN, threw |-> FALSE]

Fetch(fn, req) == [fn |-> fn, req |-> req, answer |-> << >>]

\* response.ok
Ok(answer) == answer.status \in 200..299

\* (A body that carries the teams' names without their members.)
PostTeamsBodyWithoutMembers(teams) ==
    [i \in 1..Len(teams) |-> [name |-> teams[i].name, members |-> << >>]]

\* JSON.stringify({ teams: currentTeams }), read back by express.json()
PostTeamsBody(teams) == JSONparse(<<JsonOf(teams)>>).value

GetTeamsFetch ==
    Fetch("loadSavedTeams", Req("GET /api/teams", "json", BadId, "Ann", << >>, << >>, << >>))

Awaited(fn) == {k \in 1..Len(pending) : pending[k].fn = fn /\ pending[k].answer # << >>}

\* The server answers a fetch of the page.
AnswerFetch ==
    \E k \in 1..Len(pending) :
        /\ pending[k].answer = << >>
        /\ Serve(pending[k].req)
        /\ pending' = [pending EXCEPT ![k].answer = <<response'>>]

\* loadPersons up to its fetch.
loadPersons ==
    /\ Len(pending) < MaxPending
    /\ pending' = Append(pending,
            Fetch("loadPersons", Req("GET /api/persons", "json", BadId, "Ann", << >>, << >>, << >>)))
    /\ call' = Called("loadPersons")
    /\ UNCHANGED <<persons, currentTeams, teamsDisplay, saveBtnShown, alertMsg, savedTeams>>
    /\ UNCHANGED serverVars

\* persons = await response.json(); renderPersons().  The body of an error
\* answer is no array: renderPersons throws on it and the catch empties persons.
loadPersonsAnswered ==
    \E k \in Awaited("loadPersons") :
        LET answer == pending[k].answer[1]
        IN  /\ persons' = IF answer.status = 200 THEN answer.body ELSE << >>
            /\ pending' = RemoveAt(pending, k)
            /\ call' = Called("loadPersons")
            /\ UNCHANGED <<currentTeams, teamsDisplay, saveBtnShown, alertMsg, savedTeams>>
            /\ UNCHANGED serverVars

\* (A save without the test of currentTeams.length: it sends whatever
\* currentTeams holds.)
saveCurrentTeamsUnguarded ==
    /\ Len(pending) < MaxPending
    /\ pending' = Append(pending,
           Fetch("saveCurrentTeams",
                 Req("POST /api/teams", "json", BadId, "Ann", << >>, << >>,
                     PostTeamsBody(currentTeams))))
    /\ alertMsg' = NoAlert
    /\ call' = Called("saveCurrentTeams")
    /\ UNCHANGED <<persons, currentTeams, teamsDisplay, saveBtnShown, savedTeams>>
    /\ UNCHANGED serverVars

\* saveCurrentTeams up to its fetch.
saveCurrentTeams ==
    IF Len(currentTeams) = 0
    THEN /\ alertMsg' = Alert("No teams to save!")
         /\ call' = Called("saveCurrentTeams")
         /\ UNCHANGED <<persons, currentTeams, teamsDisplay, saveBtnShown, savedTeams, pending>>
         /\ UNCHANGED serverVars
    ELSE /\ Len(pending) < MaxPending
         /\ pending' = Append(pending,
                Fetch("saveCurrentTeams",
                      Req("POST /api/teams", "json", BadId, "Ann", << >>, << >>,
                          PostTeamsBody(currentTeams))))
         /\ alertMsg' = NoAlert
         /\ call' = Called("saveCurrentTeams")
         /\ UNCHANGED <<persons, currentTeams, teamsDisplay, saveBtnShown, savedTeams>>
         /\ UNCHANGED serverVars

\* saveCurrentTeams from the answer: on response.ok it alerts and awaits
\* loadSavedTeams(), which fetches the list.
saveCurrentTeamsAnswered ==
    \E k \in Awaited("saveCurrentTeams") :
        LET answer == pending[k].answer[1]
        IN  /\ IF Ok(answer)
               THEN /\ alertMsg' = Alert("Teams saved successfully!")
                    /\ pending' = [pending EXCEPT ![k] = GetTeamsFetch]
               ELSE /\ alertMsg' = Alert("Error saving teams")
                    /\ pending' = RemoveAt(pending, k)
            /\ call' = Called("saveCurrentTeams")
            /\ UNCHANGED <<persons, currentTeams, teamsDisplay, saveBtnShown, savedTeams>>
            /\ UNCHANGED serverVars

\* loadSavedTeams up to its fetch (the page calls it when it is opened).
loadSavedTeams ==
    /\ Len(pending) < MaxPending
    /\ pending' = Append(pending, GetTeamsFetch)
    /\ call' = Called("loadSavedTeams")
    /\ UNCHANGED <<persons, currentTeams, teamsDisplay, saveBtnShown, alertMsg, savedTeams>>
    /\ UNCHANGED serverVars

\* savedTeams = await response.json(); renderSavedTeams().  On an error body
\* renderSavedTeams throws and the catch sets savedTeams = [].
loadSavedTeamsAnswered ==
    \E k \in Awaited("loadSavedTeams") :
        LET answer == pending[k].answer[1]
        IN  /\ savedTeams' = IF answer.status = 200 THEN answer.body ELSE << >>
            /\ pending' = RemoveAt(pending, k)
            /\ call' = Called("loadSavedTeams")
            /\ UNCHANGED <<persons, currentTeams, teamsDisplay, saveBtnShown, alertMsg>>
            /\ UNCHANGED serverVars

\* The ids of the Load and Delete buttons the page shows.
ListedIds == {savedTeams[i]._id : i \in 1..Len(savedTeams)}

\* window.loadTeam(id)
loadTeam(id) ==
    /\ IF \E i \in 1..Len(savedTeams) : savedTeams[i]._id = id
       THEN LET saved == savedTeams[CHOOSE i \in 1..Len(savedTeams) :
                                        /\ savedTeams[i]._id = id
                                        /\ \A j \in 1..(i - 1) : savedTeams[j]._id # id]
            IN  /\ currentTeams' = saved.teams
                /\ teamsDisplay' = renderTeams(saved.teams)
                /\ saveBtnShown' = TRUE
       ELSE UNCHANGED <<currentTeams, teamsDisplay, saveBtnShown>>
    /\ call' = [op |-> "loadTeam", id |-> id]
    /\ UNCHANGED <<persons, alertMsg, savedTeams, pending>>
    /\ UNCHANGED serverVars

LoadTeam == \E id \in ListedIds \cup {0} : loadTeam(id)

\* window.deleteSavedTeam(id), confirmed, up to its fetch.
deleteSavedTeam(id) ==
    /\ Len(pending) < MaxPending
    /\ pending' = Append(pending,
            Fetch("deleteSavedTeam",
                  Req("DELETE /api/teams/:id", "json", IdOf(id), "Ann", << >>, << >>, << >>)))
    /\ call' = Called("deleteSavedTeam")
    /\ UNCHANGED <<persons, currentTeams, teamsDisplay, saveBtnShown, alertMsg, savedTeams>>
    /\ UNCHANGED serverVars

DeleteSavedTeam == \E id \in ListedIds : deleteSavedTeam(id)

\* deleteSavedTeam from the answer.
deleteSavedTeamAnswered ==
    \E k \in Awaited("deleteSavedTeam") :
        LET answer == pending[k].answer[1]
        IN  /\ IF Ok(answer)
               THEN /\ pending' = [pending EXCEPT ![k] = GetTeamsFetch]
                    /\ UNCHANGED alertMsg
               ELSE /\ alertMsg' = Alert("Error deleting saved team")
                    /\ pending' = RemoveAt(pending, k)
            /\ call' = Called("deleteSavedTeam")
            /\ UNCHANGED <<persons, currentTeams, teamsDisplay, saveBtnShown, savedTeams>>
            /\ UNCHANGED serverVars

(***************************************************************************)
(* Specifications.                                                         *)
(***************************************************************************)
\* Team generation: the page after it has loaded a roster of n players
\* (loadPersons), n in 0 .. MaxPlayers, and the generate button clicked any
\* number of times with any text in the team-count field.  Generation sends
\* no request: the server is that of server.js and stays idle.
InitGen ==
    /\ variant = "server.js"
    /\ \E n \in 0..MaxPlayers : persons = Roster(n)
    /\ currentTeams = << >>
    /\ teamsDisplay = << >>
    /\ saveBtnShown = FALSE
    /\ alertMsg = NoAlert
    /\ call = [op |-> "none", numTeams |-> NaN, threw |-> FALSE]
    /\ savedTeams = << >>
    /\ pending = << >>
    /\ ServerInit

NextGen == GenerateTeams

SpecGen == InitGen /\ [][NextGen]_vars

\* The player store: any sequence of requests to the person routes of a
\* server started on an empty store.
InitApi == ClientInit /\ ServerInit

NextPersons ==
    \/ GetPersonsRequest
    \/ PostPersonsRequest
    \/ PutPersonRequest
    \/ DeletePersonRequest
    \/ Tick

SpecPersons == InitApi /\ [][NextPersons]_vars

\* Both stores: any sequence of requests to all seven routes.  The player
\* bodies are well formed here (JSON, one stats value, no photo): what is
\* looked at is which store a request touches.
StoreRequestsTo(route) ==
    {req \in RequestsTo(route) :
        /\ req.enc = "json"
        /\ req.route \in {"POST /api/persons", "PUT /api/persons/:id"}
            => req.stats = <<JsonOf(StatsTable[1])>>}

NextStore ==
    \/ \E req \in StoreRequestsTo("GET /api/persons") : Serve(req) /\ UNCHANGED pending
    \/ \E req \in StoreRequestsTo("POST /api/persons") : Serve(req) /\ UNCHANGED pending
    \/ \E req \in StoreRequestsTo("PUT /api/persons/:id") : Serve(req) /\ UNCHANGED pending
    \/ \E req \in StoreRequestsTo("DELETE /api/persons/:id") : Serve(req) /\ UNCHANGED pending
    \/ \E req \in StoreRequestsTo("GET /api/teams") : Serve(req) /\ UNCHANGED pending
    \/ \E req \in StoreRequestsTo("POST /api/teams") : Serve(req) /\ UNCHANGED pending
    \/ \E req \in StoreRequestsTo("DELETE /api/teams/:id") : Serve(req) /\ UNCHANGED pending
    \/ Tick

SpecStore == InitApi /\ [][NextStore]_vars

\* The server under concurrent requests, from the start of the process.
InitConn ==
    /\ ClientInit
    /\ variant \in Variants
    /\ db = "unset"
    /\ opened = 0
    /\ process = IF HasMiddleware(variant) THEN "listening" ELSE "starting"
    /\ dbPersons = << >>
    /\ dbSavedTeams = << >>
    /\ nextOid = 1
    /\ now = 0
    /\ response = [req |-> NoReq, status |-> 0, body |-> "", by |-> "none"]
    /\ inflight = << >>

NextConn ==
    \/ Startup
    \/ \E req \in ConcurrentRequests : Arrive(req)
    \/ \E k \in 1..Len(inflight) : ConnectSucceeds(k)
    \/ \E k \in 1..Len(inflight) : ConnectFails(k)
    \/ \E k \in 1..Len(inflight) : RunRoute(k)

SpecConn == InitConn /\ [][NextConn]_vars

\* The page against its server: the store holds n players, n in
\* 0 .. MaxStoredPlayers, when the page is opened, and the user clicks in any
\* order while the fetches are under way.
InitClient ==
    /\ ClientInit
    /\ variant \in Variants
    /\ db = IF variant = "part_000" THEN "connected" ELSE "unset"
    /\ \E n \in 0..MaxStoredPlayers :
            /\ dbPersons = Roster(n)
            /\ nextOid = n + 1
    /\ dbSavedTeams = << >>
    /\ now = 0
    /\ response = [req |-> NoReq, status |-> 0, body |-> "", by |-> "none"]
    /\ inflight = << >>
    /\ opened = IF variant = "part_000" THEN 1 ELSE 0
    /\ process = "listening"

NextClient ==
    \/ loadPersons
    \/ loadPersonsAnswered
    \/ GenerateTeams
    \/ saveCurrentTeams
    \/ saveCurrentTeamsAnswered
    \/ loadSavedTeams
    \/ loadSavedTeamsAnswered
    \/ LoadTeam
    \/ DeleteSavedTeam
    \/ deleteSavedTeamAnswered
    \/ AnswerFetch

SpecClient == InitClient /\ [][NextClient]_vars

\* The saved-team store: any sequence of requests to the team routes.
NextTeams ==
    \/ GetTeamsRequest
    \/ PostTeamsRequest
    \/ DeleteTeamRequest
    \/ Tick

SpecTeams == InitApi /\ [][NextTeams]_vars

(***************************************************************************)
(* Properties of team generation (SpecGen).                                *)
(***************************************************************************)
\* The last handler run was generateTeams and it read the team count n.
Generated == call.op = "generateTeams"

TeamSize(i) == Len(currentTeams[i].members)

RECURSIVE SumSizes(_)
SumSizes(i) == IF i = 0 THEN 0 ELSE TeamSize(i) + SumSizes(i - 1)

\* How many times player p is a member of some team of currentTeams.
Occurrences(p) ==
    Cardinality({<<i, j>> \in (1..Len(currentTeams)) \X (1..MaxPlayers) :
                    j <= TeamSize(i) /\ currentTeams[i].members[j] = p})

\* C1: whenever generateTeams has run with players.length >= teamCount >= 1,
\* currentTeams holds exactly teamCount teams, the member counts of any two of
\* them differ by at most 1, and the member counts sum to players.length.
C1_BalancedTeams ==
    (/\ Generated
     /\ ~call.numTeams.nan
     /\ call.numTeams.val >= 1
     /\ Len(persons) >= call.numTeams.val)
    => /\ Len(currentTeams) = call.numTeams.val
       /\ \A i, j \in 1..Len(currentTeams) : TeamSize(i) - TeamSize(j) <= 1
       /\ SumSizes(Len(currentTeams)) = Len(persons)

\* An uneven split: 4 players in 3 teams, of 2, 1 and 1 members in some order.
C1_Witness ==
    /\ Generated
    /\ call.numTeams = Num(3)
    /\ Len(persons) = 4
    /\ Len(currentTeams) = 3
    /\ {TeamSize(i) : i \in 1..3} = {1, 2}

\* C2: after every generateTeams call that succeeded (no alert, no exception),
\* whatever order the shuffle gave, every player of persons is a member of
\* exactly one team, once, and every member is a player of persons.
C2_EachPlayerOnce ==
    (Generated /\ alertMsg = NoAlert /\ ~call.threw)
    => /\ \A k \in 1..Len(persons) : Occurrences(persons[k]) = 1
       /\ \A i \in 1..Len(currentTeams) : \A j \in 1..TeamSize(i) :
            \E k \in 1..Len(persons) : currentTeams[i].members[j] = persons[k]

\* Four players dealt to two teams in an order that is not the roster's.
C2_Witness ==
    /\ Generated /\ alertMsg = NoAlert /\ ~call.threw
    /\ Len(persons) = 4
    /\ Len(currentTeams) = 2
    /\ currentTeams[1].members = <<persons[3], persons[1]>>
    /\ currentTeams[2].members = <<persons[4], persons[2]>>

\* C3: a generateTeams call with teamCount > players.length alerts the
\* validation message naming teamCount and creates no teams: currentTeams (and
\* what is displayed) stay exactly as they were.
C3_TooFewPlayersRejected ==
    [][(/\ call'.op = "generateTeams"
        /\ ~call'.numTeams.nan
        /\ call'.numTeams.val > Len(persons))
        => /\ alertMsg' = NeedPlayersAlert(call'.numTeams)
           /\ currentTeams' = currentTeams
           /\ teamsDisplay' = teamsDisplay
           /\ ~call'.threw]_vars

\* Teams were generated, then a count above the number of players was
\* rejected, and the teams are still there.
C3_Witness ==
    /\ Generated
    /\ alertMsg = NeedPlayersAlert(Num(Len(persons) + 1))
    /\ Len(persons) = 3
    /\ Len(currentTeams) = 2
    /\ teamsDisplay = renderTeams(currentTeams)

\* C4: a generateTeams call with teamCount < 1 (zero, negative, or not a
\* number) fails with a validation error, for every player list, and does not
\* replace currentTeams.
C4_CountBelowOneRejected ==
    [][(call'.op = "generateTeams" /\ (call'.numTeams.nan \/ call'.numTeams.val < 1))
        => /\ alertMsg' # NoAlert
           /\ ~call'.threw
           /\ currentTeams' = currentTeams]_vars

\* The sum of the six stats of every member.
RECURSIVE TotalStats(_, _)
TotalStats(members, i) ==
    IF i = 0 THEN 0 ELSE SumStats(members[i].stats) + TotalStats(members, i - 1)

\* The mean of the members' six-stat averages, total / (6 * count), rounded to
\* the nearest integer, halves up, in exact arithmetic; 0 for no member.
ExactRating(members) ==
    IF Len(members) = 0 THEN 0
    ELSE (2 * TotalStats(members, Len(members)) + 6 * Len(members))
            \div (12 * Len(members))

\* C5: the Average Rating displayed for every team is the exact mean of its
\* members' six-stat averages rounded to the nearest integer, halves up (0 for
\* a team without members; 65 for one member with 80, 70, 60, 90, 50, 40).
C5_DisplayedAverageIsExactMean ==
    Len(teamsDisplay) = Len(currentTeams)
    => \A i \in 1..Len(currentTeams) :
            teamsDisplay[i].avg = ExactRating(currentTeams[i].members)

(***************************************************************************)
(* Properties of the player routes (SpecPersons) and of the saved-team     *)
(* routes (SpecTeams).  A step that answers a request leaves the clock     *)
(* alone and puts the request and its answer in response'; by = "route"    *)
(* says the route handler gave the answer, not the connection middleware.  *)
(***************************************************************************)
AnsweredBy(route) ==
    /\ now' = now
    /\ response'.by = "route"
    /\ response'.req.route = route

\* The stats field is missing, or is a text that is no JSON.
BadStats(req) == req.stats = << >> \/ req.stats[1].text # "json"

\* The :id of the path is that of a document of the collection.
Stored(coll, id) == id.hex /\ \E i \in 1..Len(coll) : coll[i]._id = id.oid

\* C6: a POST /api/persons whose stats field is missing or is no parseable
\* JSON is answered 400, and the player store after it is the store before.
C6_CreateWithBadStatsIs400 ==
    [][(AnsweredBy("POST /api/persons") /\ BadStats(response'.req))
        => /\ response'.status = 400
           /\ dbPersons' = dbPersons]_vars

\* C7: a PUT /api/persons/:id whose stats field is missing or unparseable is
\* answered with a client error (4xx, not 5xx), and no field of any stored
\* player is written.
C7_UpdateWithBadStatsIsClientError ==
    [][(AnsweredBy("PUT /api/persons/:id") /\ BadStats(response'.req))
        => /\ response'.status \in 400..499
           /\ dbPersons' = dbPersons]_vars

\* C8: a PUT /api/persons/:id whose id matches no stored player is answered
\* 404 and leaves the player store unchanged (nothing created, nothing
\* modified).  Stated for the requests whose stats the server reads and
\* parses, where the id alone decides the answer.
C8_UpdateUnknownIdIs404 ==
    [][(/\ AnsweredBy("PUT /api/persons/:id")
        /\ ~BadStats(response'.req)
        /\ BodyOf(variant, response'.req).stats = response'.req.stats
        /\ ~Stored(dbPersons, response'.req.id))
        => /\ response'.status = 404
           /\ dbPersons' = dbPersons]_vars

\* C9: a PUT /api/persons/:id answered 200 writes the request's name, its
\* parsed stats and updatedAt = now into the player of that id; the photo is
\* another one only if the request carried a file, and is the stored one when
\* it carried none; _id and createdAt stay, and so does every other player.
C9_UpdateWritesOnlyItsFields ==
    [][(AnsweredBy("PUT /api/persons/:id") /\ response'.status = 200)
        => LET req == response'.req
               i   == IndexOfId(dbPersons, req.id.oid)
           IN  /\ Stored(dbPersons, req.id)
               /\ Len(dbPersons') = Len(dbPersons)
               /\ \A j \in 1..Len(dbPersons) : j # i => dbPersons'[j] = dbPersons[j]
               /\ dbPersons'[i].name = req.name
               /\ dbPersons'[i].stats = req.stats[1].of[1]
               /\ dbPersons'[i].updatedAt = <<now>>
               /\ dbPersons'[i].photo # dbPersons[i].photo => req.file # << >>
               /\ req.file = << >> => dbPersons'[i].photo = dbPersons[i].photo
               /\ dbPersons'[i]._id = dbPersons[i]._id
               /\ dbPersons'[i].createdAt = dbPersons[i].createdAt]_vars

\* A player created with a photo at time 0 and updated later, without a
\* photo, to another name: the photo is still there.
C9_Witness ==
    /\ response.by = "route"
    /\ response.req.route = "PUT /api/persons/:id"
    /\ response.status = 200
    /\ response.req.file = << >>
    /\ \E i \in 1..Len(dbPersons) :
            /\ dbPersons[i]._id = response.req.id.oid
            /\ dbPersons[i].photo # << >>
            /\ dbPersons[i].name = response.req.name
            /\ dbPersons[i].updatedAt = <<now>>
            /\ dbPersons[i].createdAt < now

\* C10: a DELETE /api/teams/:id is answered 200 if and only if its id is
\* stored; it then removes exactly that set, and otherwise changes nothing
\* and, the id being well formed, is answered 404.  A delete of the id of the
\* delete just answered 200 is answered 404 and changes nothing; and since a
\* set saved later never gets an id issued before, so is every later one.
C10_DeleteTeamIffStored ==
    [][/\ AnsweredBy("DELETE /api/teams/:id")
          => LET id     == response'.req.id
                 stored == Stored(dbSavedTeams, id)
             IN  /\ (response'.status = 200) <=> stored
                 /\ stored => /\ dbSavedTeams' =
                                    SelectSeq(dbSavedTeams, LAMBDA d : d._id # id.oid)
                              /\ Len(dbSavedTeams') = Len(dbSavedTeams) - 1
                 /\ ~stored => /\ dbSavedTeams' = dbSavedTeams
                               /\ id.hex => response'.status = 404
                 /\ (response.req = response'.req /\ response.status = 200)
                        => /\ response'.status = 404
                           /\ dbSavedTeams' = dbSavedTeams
       /\ nextOid' >= nextOid
       /\ \A i \in 1..Len(dbSavedTeams') :
            \/ \E j \in 1..Len(dbSavedTeams) : dbSavedTeams[j] = dbSavedTeams'[i]
            \/ /\ dbSavedTeams'[i]._id >= nextOid
               /\ dbSavedTeams'[i]._id < nextOid'
      ]_vars

\* The second delete of a set: its id was issued, is stored no longer, and
\* the delete is answered 404 while another set stays stored.
C10_Witness ==
    /\ response.by = "route"
    /\ response.req.route = "DELETE /api/teams/:id"
    /\ response.status = 404
    /\ response.req.id.hex
    /\ response.req.id.oid < nextOid
    /\ ~Stored(dbSavedTeams, response.req.id)
    /\ Len(dbSavedTeams) = 1

(***************************************************************************)
(* Properties of the saved-team listing (SpecTeams).                       *)
(***************************************************************************)
\* The last request answered was a GET /api/teams, answered by its route.
\* Nothing has changed the store since: only the clock may have moved.
Listed ==
    /\ response.by = "route"
    /\ response.req.route = "GET /api/teams"
    /\ response.status = 200

\* The listing holds every stored set exactly once and nothing else.
ListsEveryStoredSetOnce ==
    /\ Len(response.body) = Len(dbSavedTeams)
    /\ \A i \in 1..Len(dbSavedTeams) :
        Cardinality({j \in 1..Len(response.body) :
                        response.body[j] = dbSavedTeams[i]}) = 1

\* C11 as stated: the listing holds every stored set exactly once, and a set
\* saved later (ids are issued in the order of the saves) stands before every
\* set saved earlier.
C11_ListedNewestFirst ==
    Listed
    => /\ ListsEveryStoredSetOnce
       /\ \A i, j \in 1..Len(response.body) :
            i < j => response.body[i]._id > response.body[j]._id

\* C11, amended: the listing holds every stored set exactly once, in
\* descending order of createdAt; a set saved at a later time than another
\* stands before it, and sets of equal createdAt stand in either order.
C11_ListedByCreatedAtDesc ==
    Listed
    => /\ ListsEveryStoredSetOnce
       /\ \A i, j \in 1..Len(response.body) :
            /\ i < j => response.body[i].createdAt >= response.body[j].createdAt
            /\ response.body[i].createdAt > response.body[j].createdAt => i < j

\* Two sets saved at different times, listed in the reverse of the order the
\* store keeps them in.
C11_Witness ==
    /\ Listed
    /\ Len(response.body) = 2
    /\ response.body[1].createdAt > response.body[2].createdAt
    /\ response.body[1] = dbSavedTeams[2]
    /\ response.body[2] = dbSavedTeams[1]

(***************************************************************************)
(* Properties of the page against its server (SpecClient).                 *)
(***************************************************************************)
\* The step is the server's answer to the k-th fetch of the page.
FetchAnswered(k) ==
    /\ k <= Len(pending) /\ k <= Len(pending')
    /\ pending[k].answer = << >>
    /\ pending'[k].answer = <<response'>>

\* C12: a save sends currentTeams as they are; the POST /api/teams answered
\* 201 appends exactly one set, whose teams are those sent and whose id no
\* stored set has and none was issued before; every set of the list the page
\* then loads has, while stored, the teams of the stored set; and loadTeam of a listed id
\* makes currentTeams the teams of that set.
C12_SavedSetLoadsBack ==
    [][/\ (call'.op = "saveCurrentTeams" /\ Len(pending') > Len(pending))
            => pending'[Len(pending')].req.teams = currentTeams
       /\ \A k \in 1..Len(pending) :
            (/\ FetchAnswered(k)
             /\ pending[k].req.route = "POST /api/teams"
             /\ response'.status = 201)
            => /\ Len(dbSavedTeams') = Len(dbSavedTeams) + 1
               /\ SubSeq(dbSavedTeams', 1, Len(dbSavedTeams)) = dbSavedTeams
               /\ dbSavedTeams'[Len(dbSavedTeams')].teams = pending[k].req.teams
               /\ dbSavedTeams'[Len(dbSavedTeams')]._id >= nextOid
               /\ ~Stored(dbSavedTeams, IdOf(dbSavedTeams'[Len(dbSavedTeams')]._id))
       /\ \A i \in 1..Len(savedTeams') : \A j \in 1..Len(dbSavedTeams') :
            savedTeams'[i]._id = dbSavedTeams'[j]._id
                => savedTeams'[i].teams = dbSavedTeams'[j].teams
       /\ (/\ call'.op = "loadTeam"
           /\ pending' = pending
           /\ \E i \in 1..Len(savedTeams) : savedTeams[i]._id = call'.id)
            => /\ \E i \in 1..Len(savedTeams) :
                    /\ savedTeams[i]._id = call'.id
                    /\ currentTeams' = savedTeams[i].teams
               /\ \A j \in 1..Len(dbSavedTeams) :
                    dbSavedTeams[j]._id = call'.id => currentTeams' = dbSavedTeams[j].teams
      ]_vars

\* Teams were saved, other teams generated, and the saved set loaded back:
\* currentTeams are again the two teams the store holds.
C12_Witness ==
    /\ call.op = "loadTeam"
    /\ Len(persons) = 2
    /\ Len(currentTeams) = 2
    /\ \E j \in 1..Len(dbSavedTeams) :
            /\ dbSavedTeams[j]._id = call.id
            /\ dbSavedTeams[j].teams = currentTeams
    /\ response.req.route = "GET /api/teams"

(***************************************************************************)
(* Properties of the two stores together (SpecStore).                      *)
(***************************************************************************)
\* The saved set d holds a copy of the player of ObjectId oid.
HoldsCopyOf(d, oid) ==
    \E t \in 1..Len(d.teams) : \E m \in 1..Len(d.teams[t].members) :
        d.teams[t].members[m]._id = oid

\* C13: a PUT or a DELETE of a player, whatever its answer, leaves the
\* saved-team store as it was: every saved set, those holding a copy of the
\* player included, is still stored with the same teams and members.
C13_PlayerRoutesKeepSavedTeams ==
    [][(AnsweredBy("PUT /api/persons/:id") \/ AnsweredBy("DELETE /api/persons/:id"))
        => dbSavedTeams' = dbSavedTeams]_vars

\* A stored player was deleted and a saved set still holds its copy.
C13_Witness ==
    /\ response.by = "route"
    /\ response.req.route = "DELETE /api/persons/:id"
    /\ response.status = 200
    /\ response.req.id.oid < nextOid
    /\ ~Stored(dbPersons, response.req.id)
    /\ \E j \in 1..Len(dbSavedTeams) : HoldsCopyOf(dbSavedTeams[j], response.req.id.oid)

\* C14: over every sequence of requests to the seven routes, a saved set is
\* written once, with the teams of its POST and createdAt = now, under an id
\* not stored before; while its id is stored its document stays the same; and
\* it leaves the store only by a DELETE /api/teams/:id of its id answered 200.
C14_SavedSetsImmutable ==
    [][/\ \A j \in 1..Len(dbSavedTeams') :
            \/ \E i \in 1..Len(dbSavedTeams) : dbSavedTeams[i] = dbSavedTeams'[j]
            \/ /\ AnsweredBy("POST /api/teams")
               /\ response'.status = 201
               /\ ~Stored(dbSavedTeams, IdOf(dbSavedTeams'[j]._id))
               /\ dbSavedTeams'[j].teams = response'.req.teams
               /\ dbSavedTeams'[j].createdAt = now
       /\ \A i \in 1..Len(dbSavedTeams) :
            \/ \E j \in 1..Len(dbSavedTeams') : dbSavedTeams'[j] = dbSavedTeams[i]
            \/ /\ AnsweredBy("DELETE /api/teams/:id")
               /\ response'.status = 200
               /\ response'.req.id = IdOf(dbSavedTeams[i]._id)
      ]_vars

\* A set saved at time 0 is still stored, as saved, at a later time and
\* after a player was updated and another set deleted.
C14_Witness ==
    /\ now > 0
    /\ Len(dbSavedTeams) = 1
    /\ dbSavedTeams[1].createdAt = 0
    /\ dbSavedTeams[1]._id < nextOid - 1
    /\ Len(dbSavedTeams[1].teams) = 2
    /\ \E i \in 1..Len(dbPersons) : dbPersons[i].updatedAt = <<now>>

(***************************************************************************)
(* What team generation leaves alone (SpecClient).                         *)
(***************************************************************************)
\* The fetches of POST /api/teams among those under way.
SaveFetches(fetches) ==
    {k \in 1..Len(fetches) : fetches[k].req.route = "POST /api/teams"}

\* C15: a run of generateTeams sends no request and gets no answer (pending
\* and response stay), changes neither store nor the connection, and leaves
\* persons and savedTeams as they were, order included; a saved set enters
\* the store only as the answer to a POST /api/teams sent by
\* saveCurrentTeams, and only saveCurrentTeams sends one.
C15_GenerationHasNoSideEffects ==
    [][/\ (call'.op = "generateTeams" /\ ~\E k \in 1..Len(pending) : FetchAnswered(k))
            => /\ pending' = pending
               /\ response' = response
               /\ <<db, dbPersons, dbSavedTeams, nextOid>>' = <<db, dbPersons, dbSavedTeams, nextOid>>
               /\ persons' = persons
               /\ savedTeams' = savedTeams
       /\ Len(dbSavedTeams') > Len(dbSavedTeams)
            => \E k \in 1..Len(pending) :
                    /\ FetchAnswered(k)
                    /\ pending[k].fn = "saveCurrentTeams"
                    /\ pending[k].req.route = "POST /api/teams"
       /\ Cardinality(SaveFetches(pending')) > Cardinality(SaveFetches(pending))
            => call'.op = "saveCurrentTeams"
      ]_vars

\* Two stored players loaded, and teams generated from them in the other
\* order: persons is in the store's order still, nothing is saved or sent.
C15_Witness ==
    /\ call.op = "generateTeams"
    /\ ~call.threw
    /\ persons = dbPersons
    /\ Len(persons) = 2
    /\ Len(currentTeams) = 1
    /\ currentTeams[1].members = <<persons[2], persons[1]>>
    /\ dbSavedTeams = << >>
    /\ pending = << >>

(***************************************************************************)
(* The shape of the generated teams (SpecGen).                             *)
(***************************************************************************)
\* generateTeams has run to its end with a team count of at least 1.
Dealt ==
    /\ Generated
    /\ alertMsg = NoAlert
    /\ ~call.threw
    /\ ~call.numTeams.nan
    /\ call.numTeams.val >= 1

\* How many of the indices 0 .. n - 1 are k modulo N.
DealtTo(k, n, N) == Cardinality({i \in 0..(n - 1) : i % N = k})

\* C16: after generateTeams has run to its end with team count N >= 1 there
\* is an order s of the players (the shuffled one) such that team k, counted
\* from 0, is named "Team k+1" and its members are s[k], s[k+N], s[k+2N], ...
\* in that order (s indexed from 0).
C16_RoundRobinOfTheShuffle ==
    Dealt
    => LET N == call.numTeams.val
           n == Len(persons)
       IN  /\ Len(currentTeams) = N
           /\ \E s \in Shuffles(persons) :
                \A k \in 0..(N - 1) :
                    /\ currentTeams[k + 1].name = TeamName(k)
                    /\ currentTeams[k + 1].members =
                            [j \in 1..DealtTo(k, n, N) |-> s[k + (j - 1) * N + 1]]

\* Four players dealt to two teams from the order 2, 1, 4, 3.
C16_Witness ==
    /\ Dealt
    /\ Len(persons) = 4
    /\ call.numTeams = Num(2)
    /\ currentTeams[1] = [name |-> TeamName(0), members |-> <<persons[2], persons[4]>>]
    /\ currentTeams[2] = [name |-> TeamName(1), members |-> <<persons[1], persons[3]>>]

\* C20: after generateTeams has run to its end with n players and N >= 1
\* teams, the team at index k (from 0) has ceil((n - k) / N) members whatever
\* the shuffle: sizes never grow with the index, and the teams of one more
\* member are the first n mod N.
C20_SizesFixedByPosition ==
    Dealt
    => LET N == call.numTeams.val
           n == Len(persons)
       IN  /\ Len(currentTeams) = N
           /\ \A k \in 0..(N - 1) :
                /\ TeamSize(k + 1) = (n - k + N - 1) \div N
                /\ TeamSize(k + 1) = (n \div N) + (IF k < n % N THEN 1 ELSE 0)
                /\ k > 0 => TeamSize(k + 1) <= TeamSize(k)

\* Four players in three teams: 2, 1 and 1 members, in this order.
C20_Witness ==
    /\ Dealt
    /\ Len(persons) = 4
    /\ call.numTeams = Num(3)
    /\ <<TeamSize(1), TeamSize(2), TeamSize(3)>> = <<2, 1, 1>>

(***************************************************************************)
(* Properties of the server under concurrent requests (SpecConn).          *)
(***************************************************************************)
\* C17: whatever the interleaving of the requests, those that arrive before
\* the first connection attempt has ended included, MongoClient.connect
\* succeeds at most once in the life of the process; the handle being set
\* with the first success, no request opens a connection after that.
C17_AtMostOneConnection == opened <= 1

\* The step is the failure of the connection attempt made for inflight[k]:
\* the request was awaiting connectDB and is gone.
AttemptFailed(k) ==
    /\ inflight[k].pc = "connecting"
    /\ inflight' = RemoveAt(inflight, k)

\* C18: when the connection attempt made for a request fails, the request is
\* answered 500, no store is read or written for it, it is dropped (not
\* retried), the handle is unset afterwards and the process goes on
\* listening; and a request that arrives with the handle unset makes a
\* connection attempt of its own.
C18_FailedAttemptLeavesHandleUnset ==
    [][/\ \A k \in 1..Len(inflight) :
            AttemptFailed(k)
            => /\ response'.status = 500
               /\ response'.req = inflight[k].req
               /\ response'.by = "middleware"
               /\ <<dbPersons, dbSavedTeams, nextOid>>' = <<dbPersons, dbSavedTeams, nextOid>>
               /\ opened' = opened
               /\ db' = "unset"
               /\ process' = "listening"
       /\ (Len(inflight') > Len(inflight) /\ db = "unset")
            => inflight'[Len(inflight')].pc = "connecting"
      ]_vars

\* The step is the end of the store operation of inflight[k] and its answer.
RouteDone(k) ==
    /\ inflight[k].pc = "route"
    /\ inflight' = RemoveAt(inflight, k)
    /\ response'.req = inflight[k].req
    /\ response'.by = "route"

\* C19: with two updates of the same stored player under way at once, the
\* one the store applies is answered 200, the other being there or not, and
\* leaves the player with exactly its name and its stats; so is the second
\* when its turn comes, and the player ends with the name and stats of the
\* update applied last, never with the name of one and the stats of the other.
C19_ConcurrentUpdatesLastWriteWins ==
    [][\A k \in 1..Len(inflight) :
        (/\ RouteDone(k)
         /\ inflight[k].req.route = "PUT /api/persons/:id"
         /\ Stored(dbPersons, inflight[k].req.id))
        => LET req == inflight[k].req
               i   == IndexOfId(dbPersons, req.id.oid)
           IN  /\ response'.status = 200
               /\ dbPersons'[i]._id = req.id.oid
               /\ dbPersons'[i].name = req.name
               /\ dbPersons'[i].stats = req.stats[1].of[1]
      ]_vars

\* Two updates of player 1 to different names and stats were under way
\* together; the first applied has been answered 200 and the player holds
\* its name and stats, the other still awaits the store.
C19_Witness ==
    /\ response.by = "route"
    /\ response.req.route = "PUT /api/persons/:id"
    /\ response.status = 200
    /\ Len(inflight) = 1
    /\ inflight[1].pc = "route"
    /\ inflight[1].req.route = "PUT /api/persons/:id"
    /\ inflight[1].req.id = response.req.id
    /\ inflight[1].req.name # response.req.name
    /\ inflight[1].req.stats # response.req.stats
    /\ \E i \in 1..Len(dbPersons) :
            /\ dbPersons[i]._id = response.req.id.oid
            /\ dbPersons[i].name = response.req.name
            /\ dbPersons[i].stats = response.req.stats[1].of[1]

(***************************************************************************)
(* The teams the page holds, sends and stores (SpecClient).                *)
(***************************************************************************)
\* Every team of the sequence has a member.
NoEmptyTeam(teams) == \A t \in 1..Len(teams) : Len(teams[t].members) >= 1

\* C21: whatever the page has done (generateTeams with any team count,
\* loadTeam, saveCurrentTeams, loading the players or the saved sets), every
\* team of currentTeams has at least one member; every POST /api/teams the
\* page has sent carries at least one team and no empty team; and so does
\* every saved set of the store, and of the list the page holds.
C21_NoEmptyTeamSaved ==
    /\ NoEmptyTeam(currentTeams)
    /\ \A k \in SaveFetches(pending) :
            /\ Len(pending[k].req.teams) >= 1
            /\ NoEmptyTeam(pending[k].req.teams)
    /\ \A j \in 1..Len(dbSavedTeams) :
            /\ Len(dbSavedTeams[j].teams) >= 1
            /\ NoEmptyTeam(dbSavedTeams[j].teams)
    /\ \A i \in 1..Len(savedTeams) :
            /\ Len(savedTeams[i].teams) >= 1
            /\ NoEmptyTeam(savedTeams[i].teams)

\* Two teams were saved; then a generation with a team count below 1 left
\* currentTeams without a team, and the save that followed was refused by
\* the page: the store holds the one set of two teams.
C21_Witness ==
    /\ call.op = "saveCurrentTeams"
    /\ alertMsg = Alert("No teams to save!")
    /\ currentTeams = << >>
    /\ Len(persons) = 2
    /\ Len(dbSavedTeams) = 1
    /\ Len(dbSavedTeams[1].teams) = 2
    /\ pending = << >>

====
